---- MODULE Spec2Model ----
(***************************************************************************)
(* QtIOCompressor (src/src/streams/qtiocompressor.cpp): a sequential       *)
(* QIODevice that compresses what is written to it and decompresses what   *)
(* is read from it, over an underlying QIODevice (the Endpoint), with a    *)
(* zlib backend (QtIOCompressorZlibPrivate) and a zstd backend             *)
(* (QtIOCompressorZstdPrivate).                                            *)
(*                                                                         *)
(* Every public operation is one action.  The loops of an operation call   *)
(* the Endpoint, whose answers are not decided by the program (a short     *)
(* read, a short write, -1), so every operation is an operator from the    *)
(* program state to the SET of states it can end in, one per way the       *)
(* Endpoint and the codec library can answer.                              *)
(*                                                                         *)
(* zlib and libzstd are libraries outside the repository.  They are        *)
(* modelled by a small codec with the same call protocol: a header, one    *)
(* token per data byte, a sync marker, an end marker and (zlib) a          *)
(* checksum; input is held back inside the compressor until a block is     *)
(* full, a flush or the end.  The protocol details that decide how the     *)
(* loops of the program end are the libraries' own: deflate's last_flush   *)
(* rule for Z_BUF_ERROR, inflate's Z_BUF_ERROR on a call without progress, *)
(* ZSTD_decompressStream's error after a run of calls without progress.    *)
(***************************************************************************)
EXTENDS Integers, Sequences, FiniteSets, TLC

(***************************************************************************)
(* Bounds of the model.                                                    *)
(***************************************************************************)
MaxData == 2      \* most bytes a caller writes in one Write session
MaxRead == 2      \* largest maxSize of one read() call
MaxBuf == 3       \* largest bufferSize given to the constructor
LoopFuel == 12    \* iterations after which a loop is reported as not ending

(***************************************************************************)
(* Scaled-down constants of the codec libraries.                           *)
(***************************************************************************)
MinBuf == 2                 \* bufferSize must exceed the sync marker (zlib.h: avail_out > 6)
BlockLen == 2               \* input bytes the compressor holds back before it emits a block
WindowLen == 2              \* input bytes deflate takes in before it looks at the output space
ZSTD_DStreamInSize == 3     \* libzstd's recommended input chunk
ZSTD_CStreamOutSize == 3    \* libzstd's recommended output chunk
ZSTD_NO_FORWARD_PROGRESS_MAX == 2  \* libzstd: calls without progress before an error (16)
UINT_MODULUS == 8           \* values of zlib's uInt (ZlibSize), 2^32 scaled down

(***************************************************************************)
(* Bytes.  The caller's bytes are DataBytes; the bytes on the Endpoint are *)
(* StreamBytes.  "?" is a scratch-buffer cell that was never written.      *)
(***************************************************************************)
DataBytes == {"a", "b"}
StreamBytes == {"A", "B", "H", "M", "S", "E", "c0", "c1"}
Uninit == "?"

Min(x, y) == IF x <= y THEN x ELSE y
Max(x, y) == IF x >= y THEN x ELSE y
Take(s, n) == SubSeq(s, 1, Min(n, Len(s)))
Drop(s, n) == SubSeq(s, Min(n, Len(s)) + 1, Len(s))

Lit(b) == IF b = "a" THEN "A" ELSE "B"
UnLit(t) == IF t = "A" THEN "a" ELSE "b"
LitSeq(s) == [i \in 1..Len(s) |-> Lit(s[i])]
Weight(b) == IF b = "b" THEN 1 ELSE 0
Chk(sum) == IF sum = 0 THEN "c0" ELSE "c1"

RECURSIVE SumOf(_)
SumOf(s) == IF s = <<>> THEN 0 ELSE (Weight(s[1]) + SumOf(Tail(s))) % 2

(***************************************************************************)
(* The codec stream object (z_stream, ZSTD_CStream, ZSTD_DStream).         *)
(***************************************************************************)
NoStream == [mode |-> "none", sum |-> 0, hold |-> <<>>, pending |-> <<>>,
             lastFlush |-> "none", noFwd |-> 0]
NewStream(mode) == [NoStream EXCEPT !.mode = mode]

(***************************************************************************)
(* zlib deflate().  deflate.c: pending output is flushed first; when the   *)
(* output space runs out the call returns Z_OK and sets last_flush = -1 so *)
(* that the next call is not a Z_BUF_ERROR; a call with no input, no       *)
(* pending output and a flush value not above the last one is Z_BUF_ERROR. *)
(* Input is taken in a window at a time, and no more of it is taken once   *)
(* the output space is used up: deflate returns when the input is empty or *)
(* the output is full.                                                     *)
(***************************************************************************)
RANK(f) == CASE f = "none" -> -4
             [] f = "again" -> -2
             [] f = "Z_NO_FLUSH" -> 0
             [] f = "Z_SYNC_FLUSH" -> 4
             [] f = "Z_FINISH" -> 8

deflateEmit(z, in, flush) ==
    \* the bytes the call adds to the pending output, and the stream after it
    LET hdr == IF z.mode = "init" THEN <<"H">> ELSE <<>>
        hold1 == z.hold \o LitSeq(in)
        sum1 == (z.sum + SumOf(in)) % 2
        full == (Len(hold1) \div BlockLen) * BlockLen
    IN  IF z.mode = "finish"
        THEN [add |-> <<>>, strm |-> z]
        ELSE IF flush = "Z_FINISH"
        THEN [add |-> hdr \o hold1 \o <<"E", Chk(sum1)>>,
              strm |-> [z EXCEPT !.mode = "finish", !.hold = <<>>, !.sum = sum1]]
        ELSE IF flush = "Z_SYNC_FLUSH"
        THEN [add |-> hdr \o hold1 \o <<"S">>,
              strm |-> [z EXCEPT !.mode = "busy", !.hold = <<>>, !.sum = sum1]]
        ELSE [add |-> hdr \o Take(hold1, full),
              strm |-> [z EXCEPT !.mode = "busy", !.hold = Drop(hold1, full), !.sum = sum1]]

\* The compression proper: window after window until the input is taken or
\* the output space is used up; the flush applies with the last of the input.
\* The bytes produced are added to z.pending.
RECURSIVE deflateRun(_, _, _, _, _)
deflateRun(z, in, cap, flush, consumed) ==
    LET more == Len(in) - consumed > WindowLen
        unit == SubSeq(in, consumed + 1, Min(Len(in), consumed + WindowLen))
        e == deflateEmit(z, unit, IF more THEN "Z_NO_FLUSH" ELSE flush)
        z1 == [e.strm EXCEPT !.pending = z.pending \o e.add]
    IN  IF more /\ Len(z1.pending) < cap
        THEN deflateRun(z1, in, cap, flush, consumed + WindowLen)
        ELSE [strm |-> z1, consumed |-> consumed + Len(unit)]

deflate(z, in, cap, flush) ==
    LET z0 == [z EXCEPT !.lastFlush = flush] IN
    IF z.mode = "none" \/ (z.mode = "finish" /\ flush # "Z_FINISH")
    THEN [status |-> "Z_STREAM_ERROR", strm |-> z, consumed |-> 0, out |-> <<>>]
    ELSE IF cap = 0
    THEN [status |-> "Z_BUF_ERROR", strm |-> z, consumed |-> 0, out |-> <<>>]
    ELSE IF Len(z.pending) >= cap
    THEN [status |-> "Z_OK",
          strm |-> [z0 EXCEPT !.pending = Drop(z.pending, cap), !.lastFlush = "again"],
          consumed |-> 0, out |-> Take(z.pending, cap)]
    ELSE IF z.pending = <<>> /\ in = <<>> /\ RANK(flush) <= RANK(z.lastFlush)
            /\ flush # "Z_FINISH"
    THEN [status |-> "Z_BUF_ERROR", strm |-> z0, consumed |-> 0, out |-> <<>>]
    ELSE IF z.mode = "finish" /\ in # <<>>
    THEN [status |-> "Z_BUF_ERROR", strm |-> z0, consumed |-> 0, out |-> <<>>]
    ELSE
        LET r == deflateRun(z0, in, cap, flush, 0)
            all == r.strm.pending
            rest == Drop(all, cap)
            z1 == [r.strm EXCEPT !.pending = rest,
                                 !.lastFlush = IF Len(all) >= cap THEN "again" ELSE flush]
        IN  [status |-> IF flush = "Z_FINISH" /\ r.consumed = Len(in) /\ rest = <<>>
                        THEN "Z_STREAM_END" ELSE "Z_OK",
             strm |-> z1, consumed |-> r.consumed, out |-> Take(all, cap)]

(***************************************************************************)
(* zlib inflate().  Tokens are decoded while input lasts; a data token     *)
(* needs room in the output, the other tokens do not, so the trailer is    *)
(* consumed in the call that fills the output exactly.  A call that        *)
(* neither consumes nor produces anything is Z_BUF_ERROR.                  *)
(***************************************************************************)
RECURSIVE inflateRun(_, _, _, _, _)
inflateRun(z, in, cap, consumed, out) ==
    IF z.mode \in {"done", "bad"} \/ consumed = Len(in)
    THEN [strm |-> z, consumed |-> consumed, out |-> out]
    ELSE
        LET t == in[consumed + 1] IN
        IF z.mode = "head"
        THEN inflateRun([z EXCEPT !.mode = IF t = "H" THEN "body" ELSE "bad"],
                        in, cap, consumed + 1, out)
        ELSE IF z.mode = "check"
        THEN inflateRun([z EXCEPT !.mode = IF t = Chk(z.sum) THEN "done" ELSE "bad"],
                        in, cap, consumed + 1, out)
        ELSE IF t \in {"A", "B"}
        THEN IF Len(out) < cap
             THEN inflateRun([z EXCEPT !.sum = (z.sum + Weight(UnLit(t))) % 2],
                             in, cap, consumed + 1, Append(out, UnLit(t)))
             ELSE [strm |-> z, consumed |-> consumed, out |-> out]
        ELSE IF t = "S"
        THEN inflateRun(z, in, cap, consumed + 1, out)
        ELSE inflateRun([z EXCEPT !.mode = IF t = "E" THEN "check" ELSE "bad"],
                        in, cap, consumed + 1, out)

inflate(z, in, cap) ==
    LET r == inflateRun(z, in, cap, 0, <<>>) IN
    [status |-> IF z.mode = "none" THEN "Z_STREAM_ERROR"
                ELSE IF r.strm.mode = "bad" THEN "Z_DATA_ERROR"
                ELSE IF r.strm.mode = "done" THEN "Z_STREAM_END"
                ELSE IF r.consumed = 0 /\ r.out = <<>> THEN "Z_BUF_ERROR"
                ELSE "Z_OK",
     strm |-> r.strm, consumed |-> r.consumed, out |-> r.out]

(***************************************************************************)
(* ZSTD_compressStream2().  The result is "zero" (0: everything asked for  *)
(* is out), "more" (> 0: bytes are still to be flushed) or "error".        *)
(***************************************************************************)
zstdEmit(z, in, directive) ==
    LET hold1 == z.hold \o LitSeq(in)
        full == (Len(hold1) \div BlockLen) * BlockLen
        hdr(body) == IF z.mode = "init" /\ body # <<>> THEN <<"M">> ELSE <<>>
        body == IF directive = "ZSTD_e_end" THEN hold1 \o <<"E">>
                ELSE IF directive = "ZSTD_e_flush" THEN hold1
                ELSE Take(hold1, full)
    IN  [add |-> hdr(body) \o body,
         strm |-> [z EXCEPT !.mode = IF directive = "ZSTD_e_end" THEN "init"
                                     ELSE IF body # <<>> THEN "busy" ELSE z.mode,
                            !.hold = IF directive = "ZSTD_e_continue"
                                     THEN Drop(hold1, full) ELSE <<>>]]

ZSTD_compressStream2(z, in, cap, directive) ==
    IF z.mode = "none"
    THEN [status |-> "error", strm |-> z, consumed |-> 0, out |-> <<>>]
    ELSE IF Len(z.pending) >= cap /\ z.pending # <<>>
    THEN [status |-> "more",
          strm |-> [z EXCEPT !.pending = Drop(z.pending, cap)],
          consumed |-> 0, out |-> Take(z.pending, cap)]
    ELSE
        LET e == zstdEmit(z, in, directive)
            all == z.pending \o e.add
        IN  [status |-> IF Drop(all, cap) = <<>> THEN "zero" ELSE "more",
             strm |-> [e.strm EXCEPT !.pending = Drop(all, cap)],
             consumed |-> Len(in), out |-> Take(all, cap)]

(***************************************************************************)
(* ZSTD_decompressStream().  "zero": the frame is decoded and flushed;     *)
(* "more": a value > 0; "error".  A call without progress counts towards   *)
(* ZSTD_NO_FORWARD_PROGRESS_MAX, after which the call is an error.         *)
(***************************************************************************)
RECURSIVE zstdRun(_, _, _, _, _)
zstdRun(z, in, cap, consumed, out) ==
    IF z.mode \in {"done", "bad"} \/ consumed = Len(in)
    THEN [strm |-> z, consumed |-> consumed, out |-> out]
    ELSE
        LET t == in[consumed + 1] IN
        IF z.mode = "head"
        THEN zstdRun([z EXCEPT !.mode = IF t = "M" THEN "body" ELSE "bad"],
                     in, cap, consumed + 1, out)
        ELSE IF t \in {"A", "B"}
        THEN IF Len(out) < cap
             THEN zstdRun(z, in, cap, consumed + 1, Append(out, UnLit(t)))
             ELSE [strm |-> z, consumed |-> consumed, out |-> out]
        ELSE zstdRun([z EXCEPT !.mode = IF t = "E" THEN "done" ELSE "bad"],
                     in, cap, consumed + 1, out)

ZSTD_decompressStream(z, in, cap) ==
    LET r == zstdRun(z, in, cap, 0, <<>>)
        stuck == r.consumed = 0 /\ r.out = <<>>
        \* the counter only matters up to the limit
        n == IF stuck THEN Min(z.noFwd + 1, ZSTD_NO_FORWARD_PROGRESS_MAX) ELSE 0
    IN  IF z.mode = "none" \/ r.strm.mode = "bad"
        THEN [status |-> "error", strm |-> r.strm, consumed |-> r.consumed, out |-> r.out]
        ELSE IF r.strm.mode = "done"
        THEN [status |-> "zero", strm |-> [r.strm EXCEPT !.mode = "head", !.noFwd = 0],
              consumed |-> r.consumed, out |-> r.out]
        ELSE IF n >= ZSTD_NO_FORWARD_PROGRESS_MAX
        THEN [status |-> "error", strm |-> [r.strm EXCEPT !.noFwd = n],
              consumed |-> 0, out |-> <<>>]
        ELSE [status |-> "more", strm |-> [r.strm EXCEPT !.noFwd = n],
              consumed |-> r.consumed, out |-> r.out]

(***************************************************************************)
(* State.                                                                  *)
(***************************************************************************)
VARIABLES
    codec,          \* "zlib" | "zstd": the Private class the constructor created
    withZstd,       \* WITH_XC_ZSTD is defined in this build
    compressionLevel, \* the compressionLevel the constructor was given
    profile,        \* what the callers and the Endpoint may do in this run
    stalls,         \* Endpoint calls so far that transferred 0 bytes of some
    faults,         \* failures so far of the Endpoint and of the codec's allocator
    sessions,       \* successful open() calls so far
    openMode,       \* QIODevice::openMode() of the compressor
    errorString,    \* QIODevice::errorString() of the compressor
    state,          \* QtIOCompressorPrivate::state
    manageDevice,   \* QtIOCompressorPrivate::manageDevice
    bufferSize,     \* QtIOCompressorPrivate::bufferSize
    buffer,         \* QtIOCompressorPrivate::buffer, the scratch buffer
    strm,           \* zlibStream / zstdCStream / zstdDStream
    nextIn,         \* zlibStream.next_in - buffer / zstdInBuffer.pos
    availIn,        \* zlibStream.avail_in / zstdInBuffer.size - zstdInBuffer.pos
    devMode,        \* openMode() of the Endpoint
    devContent,     \* the bytes the Endpoint holds
    devIn,          \* the bytes the Endpoint has still to deliver to its reader
    calls,          \* the Endpoint calls made by the last operation, in order
    op,             \* the last operation and its argument
    ret,            \* what the last operation returned
    data,           \* the bytes the last read() returned to its caller
    wrote,          \* the bytes accepted by write() in this session
    got,            \* the bytes returned by read() in this session
    hung,           \* a loop of the last operation did not end within LoopFuel
    eos,            \* the last read() reached the end of the stream: what it left
    inputLeft,      \* the input the codec had not consumed when the last write() returned
    heap,           \* what is allocated: scratch buffers, codec objects, and the pointers to them
    sessOK,         \* no operation of this session has failed
    trail,          \* the write() and flush() calls of this Write session, in short
    startIn,        \* devIn when this session was opened
    streams,        \* per stream written to devContent: its source bytes and length
    tampered,       \* "no" | "appended" | "damaged": devContent was changed from outside
    devAtOpen,      \* openMode() of the Endpoint when this session's open() was called
    lastEnd         \* state when close() was last called on the open compressor ("-": never)

vars == <<codec, withZstd, compressionLevel, profile, stalls, faults, sessions, openMode, errorString, state,
          manageDevice, bufferSize, buffer, strm, nextIn, availIn, devMode,
          devContent, devIn, calls, op, ret, data, wrote, got, hung, eos, inputLeft,
          heap, sessOK, trail, startIn, streams, tampered, devAtOpen, lastEnd>>

config == <<codec, withZstd, compressionLevel, profile>>

\* What a read() that reaches the end of the stream found: the input it had
\* pulled and not consumed, and what the Endpoint had still to deliver; the
\* number of bytes the last Endpoint read had put into the scratch buffer, and
\* the offsets in the scratch buffer that the push-back reads.
NoEos == [hit |-> FALSE, left |-> <<>>, rest |-> <<>>, pulled |-> 0, peeked |-> {}]

\* The compressor and its Endpoint as one record: what an operation works on.
Machine ==
    [openMode |-> openMode, errorString |-> errorString, state |-> state,
     manageDevice |-> manageDevice, bufferSize |-> bufferSize, buffer |-> buffer,
     strm |-> strm, nextIn |-> nextIn, availIn |-> availIn, devMode |-> devMode,
     devContent |-> devContent, devIn |-> devIn, stalls |-> stalls, faults |-> faults,
     calls |-> <<>>, hung |-> FALSE, eos |-> NoEos, inputLeft |-> 0, heap |-> heap]

Install(m) ==
    /\ openMode' = m.openMode
    /\ errorString' = m.errorString
    /\ state' = m.state
    /\ manageDevice' = m.manageDevice
    /\ bufferSize' = m.bufferSize
    /\ buffer' = m.buffer
    /\ strm' = m.strm
    /\ nextIn' = m.nextIn
    /\ availIn' = m.availIn
    /\ devMode' = m.devMode
    /\ devContent' = m.devContent
    /\ devIn' = m.devIn
    /\ stalls' = m.stalls
    /\ faults' = m.faults
    /\ calls' = m.calls
    /\ hung' = m.hung
    /\ eos' = m.eos
    /\ inputLeft' = m.inputLeft
    /\ heap' = m.heap

(***************************************************************************)
(* The Endpoint (QIODevice *device).                                       *)
(***************************************************************************)
Log(m, e) == [m EXCEPT !.calls = Append(@, e)]

\* new char[n]
NewBuffer(n) == [i \in 1..n |-> Uninit]

\* memcpy of bytes to the front of the scratch buffer
Store(buf, bytes) ==
    [i \in 1..Len(buf) |-> IF i <= Len(bytes) THEN bytes[i] ELSE buf[i]]

\* The heap: buffer and stream say whether the pointers buffer and
\* zstdCStream / zstdDStream / zlibStream.state are not null; buffers and
\* objects count the scratch buffers and the codec objects that are allocated.
NoHeap == [buffer |-> FALSE, buffers |-> 0,
           stream |-> [c |-> FALSE, d |-> FALSE], objects |-> 0]

\* buffer = new char[n]
NewScratch(h) == [h EXCEPT !.buffer = TRUE, !.buffers = @ + 1]

\* delete[] buffer
DeleteScratch(h) == IF h.buffer THEN [h EXCEPT !.buffer = FALSE, !.buffers = @ - 1] ELSE h

\* p = create(): the pointer is assigned the new object, or null when create fails
Slot(read) == IF read THEN "d" ELSE "c"
CreateStream(h, read) == [h EXCEPT !.stream[Slot(read)] = TRUE, !.objects = @ + 1]
CreateFailed(h, read) == [h EXCEPT !.stream[Slot(read)] = FALSE]

\* free(p); free(null) does nothing
FreeStream(h, read) ==
    IF h.stream[Slot(read)]
    THEN [h EXCEPT !.stream[Slot(read)] = FALSE, !.objects = @ - 1]
    ELSE h

\* A call that fails: -1 from the Endpoint, no memory in the codec.
Fault(m) == [m EXCEPT !.faults = @ + 1]
MayFail(m) == m.faults < profile.faults

\* device->read(buffer, bufferSize): the outcomes [m, r].  A read may be short.
deviceRead(m, n) ==
    LET avail == Min(n, Len(m.devIn))
        lo == IF avail = 0 \/ m.stalls < profile.readStalls THEN 0 ELSE 1
    IN  { [m |-> Log([m EXCEPT !.devIn = Drop(@, k),
                               !.buffer = Store(@, Take(m.devIn, k)),
                               !.stalls = IF k = 0 /\ avail > 0 THEN @ + 1 ELSE @],
                     <<"read", n, k>>),
           r |-> k] : k \in lo..avail }
        \cup
        (IF MayFail(m) THEN {[m |-> Log(Fault(m), <<"read", n, -1>>), r |-> -1]} ELSE {})

\* device->write(buffer, outputSize): the outcomes [m, r].  A write may be short.
deviceWrite(m, bytes) ==
    LET n == Len(bytes)
        lo == IF n = 0 \/ m.stalls < profile.writeStalls THEN 0 ELSE 1
    IN  { [m |-> Log([m EXCEPT !.devContent = @ \o Take(bytes, k),
                               !.stalls = IF k = 0 /\ n > 0 THEN @ + 1 ELSE @],
                     <<"write", n, k, bytes>>),
           r |-> k] : k \in lo..n }
        \cup
        (IF MayFail(m) THEN {[m |-> Log(Fault(m), <<"write", n, -1, bytes>>), r |-> -1]} ELSE {})

\* device->ungetChar(c)
ungetChar(m, c) == Log([m EXCEPT !.devIn = <<c>> \o @], <<"ungetChar", c>>)

\* device->open(mode): the outcomes [m, r]
deviceOpen(m, mode) ==
    { [m |-> Log([m EXCEPT !.devMode = mode,
                           !.devContent = IF mode = "WriteOnly" THEN <<>> ELSE @,
                           !.devIn = IF mode = "WriteOnly" THEN <<>> ELSE m.devContent],
                 <<"open", mode>>),
       r |-> TRUE] }
    \cup
    (IF MayFail(m) THEN {[m |-> Log(Fault(m), <<"open", mode>>), r |-> FALSE]} ELSE {})

\* device->close()
deviceClose(m) == Log([m EXCEPT !.devMode = "NotOpen", !.devIn = <<>>], <<"close">>)

(***************************************************************************)
(* QtIOCompressorPrivate                                                   *)
(***************************************************************************)
setErrorString(m, msg) == [m EXCEPT !.errorString = msg]

\* writeBytes(buffer, outputSize): the outcomes [m, ok]
RECURSIVE writeBytesLoop(_, _)
writeBytesLoop(m, bytes) ==
    UNION { IF w.r = -1
            THEN {[m |-> setErrorString(w.m, <<"Error writing to underlying device: ",
                                              "device">>),
                   ok |-> FALSE]}
            ELSE IF Len(bytes) - w.r > 0
            THEN writeBytesLoop(w.m, Drop(bytes, w.r))
            ELSE {[m |-> [w.m EXCEPT !.state = "BytesWritten"], ok |-> TRUE]}
          : w \in deviceWrite(m, bytes) }

\* writeBytes without its loop: one Endpoint write, whatever it accepts
writeBytes_once(m, bytes) ==
    { IF w.r = -1
      THEN [m |-> setErrorString(w.m, <<"Error writing to underlying device: ", "device">>),
            ok |-> FALSE]
      ELSE [m |-> [w.m EXCEPT !.state = "BytesWritten"], ok |-> TRUE]
    : w \in deviceWrite(m, bytes) }

\* writeBytes that does not put up the BytesWritten flag
writeBytes_noFlag(m, bytes) ==
    { [w EXCEPT !.m.state = m.state] : w \in writeBytesLoop(m, bytes) }

writeBytes(m, bytes) == writeBytesLoop(m, bytes)

(***************************************************************************)
(* QtIOCompressorZlibPrivate                                               *)
(***************************************************************************)
\* errorMessage + zError(zlibErrorCode); an error string is the tuple of its parts
setZlibError(m, msg, status) == setErrorString(m, <<msg, status>>)

\* The unconsumed input of the decompressor: next_in[0 .. avail_in - 1].
Input(m) == SubSeq(m.buffer, m.nextIn + 1, m.nextIn + m.availIn)

\* *(next_in + i): a cell of the scratch buffer, any byte when the cell was
\* never written or lies behind the end of the allocation.
CellValues(m, i) ==
    LET k == m.nextIn + i + 1 IN
    IF k <= Len(m.buffer) /\ m.buffer[k] # Uninit THEN {m.buffer[k]} ELSE StreamBytes

\* The levels deflateInit accepts: Z_DEFAULT_COMPRESSION and 0..9.
deflateLevels == {-1} \cup (0..9)

\* inflateInit / inflateInit2 / deflateInit / deflateInit2: the outcomes.
\* deflateInit answers Z_STREAM_ERROR to a level it does not know; inflateInit
\* is not given the level.
zlibInit(m, read) ==
    IF ~read /\ compressionLevel \notin deflateLevels
    THEN {[status |-> "Z_STREAM_ERROR", strm |-> NoStream]}
    ELSE {[status |-> "Z_OK", strm |-> NewStream(IF read THEN "head" ELSE "init")]}
         \cup (IF MayFail(m) THEN {[status |-> "Z_MEM_ERROR", strm |-> NoStream]} ELSE {})

\* initialize(read): the outcomes [m, r]
Zlib_initialize(m, read) ==
    LET m1 == IF read
              THEN [m EXCEPT !.state = "NotReadFirstByte", !.availIn = 0, !.nextIn = 0]
              ELSE [m EXCEPT !.state = "NoBytesWritten"]
    IN  { IF i.status # "Z_OK"
          THEN [m |-> setZlibError(IF i.status = "Z_MEM_ERROR" THEN Fault(m1) ELSE m1,
                                   "Internal zlib error: ", i.status),
                r |-> FALSE]
          ELSE [m |-> [m1 EXCEPT !.strm = i.strm, !.heap = CreateStream(@, read)],
                r |-> TRUE]
        : i \in zlibInit(m, read) }

\* inflate(&zlibStream, Z_SYNC_FLUSH): the outcomes
inflateCall(m, cap) ==
    {inflate(m.strm, Input(m), cap)}
    \cup (IF MayFail(m)
          THEN {[status |-> "Z_MEM_ERROR", strm |-> m.strm, consumed |-> 0, out |-> <<>>]}
          ELSE {})

\* The push-back loop of readData: for (i = avail_in; i >= 0; --i) ungetChar(next_in[i])
RECURSIVE zlibUnget(_, _)
zlibUnget(m, i) ==
    IF i < 0 THEN {m}
    ELSE UNION { zlibUnget(ungetChar([m EXCEPT !.eos.peeked = @ \cup {m.nextIn + i}], c),
                           i - 1)
               : c \in CellValues(m, i) }

\* readData(data, maxSize): the outcomes [m, r, data]; out is what inflate has
\* put into data so far (maxSize - avail_out bytes).
RECURSIVE zlibReadLoop(_, _, _, _)

\* The end of readData without the loop: one inflate call, then the switch,
\* the push-back and the return.
zlibReadTail_once(m, maxSize, out, fuel) ==
    UNION {
        LET m2 == [m EXCEPT !.strm = f.strm, !.nextIn = @ + f.consumed,
                            !.availIn = @ - f.consumed]
            out2 == out \o f.out
        IN  IF f.status \in {"Z_NEED_DICT", "Z_DATA_ERROR", "Z_MEM_ERROR"}
            THEN {[m |-> setZlibError([m2 EXCEPT !.state = "Error"],
                                      "Internal zlib error when decompressing: ", f.status),
                   r |-> -1, data |-> <<>>]}
            ELSE IF f.status = "Z_BUF_ERROR"
            THEN {[m |-> m2, r |-> 0, data |-> <<>>]}
            ELSE IF f.status = "Z_STREAM_END"
            THEN {[m |-> u, r |-> Len(out2), data |-> out2]
                  : u \in zlibUnget([m2 EXCEPT !.state = "EndOfStream"], m2.availIn)}
            ELSE {[m |-> m2, r |-> Len(out2), data |-> out2]}
    : f \in inflateCall(m, maxSize - Len(out)) }

zlibReadTail(m, maxSize, out, fuel) ==
    \* from "Decompress." to the end of readData
    UNION {
        LET m2 == [m EXCEPT !.strm = f.strm, !.nextIn = @ + f.consumed,
                            !.availIn = @ - f.consumed,
                            !.faults = IF f.status = "Z_MEM_ERROR" THEN @ + 1 ELSE @]
            out2 == out \o f.out
        IN  IF f.status \in {"Z_NEED_DICT", "Z_DATA_ERROR", "Z_MEM_ERROR"}
            THEN {[m |-> setZlibError([m2 EXCEPT !.state = "Error"],
                                      "Internal zlib error when decompressing: ", f.status),
                   r |-> -1, data |-> <<>>]}
            ELSE IF f.status = "Z_BUF_ERROR"
            THEN {[m |-> m2, r |-> 0, data |-> <<>>]}
            ELSE IF Len(out2) # maxSize /\ f.status # "Z_STREAM_END"
            THEN zlibReadLoop(m2, maxSize, out2, fuel - 1)
            ELSE IF f.status = "Z_STREAM_END"
            THEN {[m |-> u, r |-> Len(out2), data |-> out2]
                  : u \in zlibUnget([m2 EXCEPT !.state = "EndOfStream",
                                               !.eos = [hit |-> TRUE, left |-> Input(m2),
                                                        rest |-> m2.devIn,
                                                        pulled |-> m2.nextIn + m2.availIn,
                                                        peeked |-> {}]],
                                    m2.availIn)}
            ELSE {[m |-> m2, r |-> Len(out2), data |-> out2]}
    : f \in inflateCall(m, maxSize - Len(out)) }

zlibReadLoop(m, maxSize, out, fuel) ==
    IF fuel = 0 THEN {[m |-> [m EXCEPT !.hung = TRUE], r |-> -1, data |-> <<>>]}
    ELSE IF m.availIn = 0
    THEN UNION {
            LET m1 == [d.m EXCEPT !.nextIn = 0, !.availIn = d.r % UINT_MODULUS] IN
            IF d.r = -1
            THEN {[m |-> setErrorString([m1 EXCEPT !.state = "Error"],
                                        <<"Error reading data from underlying device: ",
                                          "device">>),
                   r |-> -1, data |-> <<>>]}
            ELSE IF m.state # "InStream" /\ d.r = 0
            THEN {[m |-> m1, r |-> 0, data |-> <<>>]}
            ELSE zlibReadTail([m1 EXCEPT !.state = IF d.r > 0 THEN "InStream" ELSE @],
                              maxSize, out, fuel)
         : d \in deviceRead(m, m.bufferSize) }
    ELSE zlibReadTail(m, maxSize, out, fuel)

Zlib_readData(m, maxSize) == zlibReadLoop(m, maxSize, <<>>, LoopFuel)

\* writeData with a loop that ends after its first pass, whatever the output space
zlibWriteLoop_once(m, in, maxSize) ==
    LET d == deflate(m.strm, in, m.bufferSize, "Z_NO_FLUSH")
        m1 == [m EXCEPT !.strm = d.strm, !.buffer = Store(@, d.out)]
        in1 == Drop(in, d.consumed)
    IN  IF d.status # "Z_OK"
        THEN {[m |-> setZlibError([m1 EXCEPT !.state = "Error"],
                                  "Internal zlib error when compressing: ", d.status),
               r |-> -1, left |-> Len(in1)]}
        ELSE { IF ~w.ok THEN [m |-> w.m, r |-> -1, left |-> Len(in1)]
               ELSE [m |-> w.m, r |-> maxSize, left |-> Len(in1)]
             : w \in writeBytes(m1, d.out) }

\* writeData(data, maxSize): the outcomes [m, r, left]; in is next_in[0 .. avail_in - 1],
\* left the input not consumed when the loop ended (the Q_ASSERT says 0).
RECURSIVE zlibWriteLoop(_, _, _)
zlibWriteLoop(m, in, maxSize) ==
    LET d == deflate(m.strm, in, m.bufferSize, "Z_NO_FLUSH")
        m1 == [m EXCEPT !.strm = d.strm, !.buffer = Store(@, d.out)]
        in1 == Drop(in, d.consumed)
    IN  IF d.status # "Z_OK"
        THEN {[m |-> setZlibError([m1 EXCEPT !.state = "Error"],
                                  "Internal zlib error when compressing: ", d.status),
               r |-> -1, left |-> Len(in1)]}
        ELSE UNION { IF ~w.ok THEN {[m |-> w.m, r |-> -1, left |-> Len(in1)]}
                     ELSE IF Len(d.out) = m.bufferSize
                     THEN zlibWriteLoop(w.m, in1, maxSize)
                     ELSE {[m |-> w.m, r |-> maxSize, left |-> Len(in1)]}
                   : w \in writeBytes(m1, d.out) }

Zlib_writeData(m, bytes) ==
    zlibWriteLoop(m, Take(bytes, Len(bytes) % UINT_MODULUS), Len(bytes))

\* flushZlib(flushMode): the outcomes m
RECURSIVE flushZlibLoop(_, _, _)
flushZlibLoop(m, flushMode, fuel) ==
    LET d == deflate(m.strm, <<>>, m.bufferSize, flushMode)
        m1 == [m EXCEPT !.strm = d.strm, !.buffer = Store(@, d.out)]
    IN  IF fuel = 0 THEN {[m EXCEPT !.hung = TRUE]}
        ELSE IF d.status \notin {"Z_OK", "Z_STREAM_END"}
        THEN {setZlibError([m1 EXCEPT !.state = "Error"],
                           "Internal zlib error when compressing: ", d.status)}
        ELSE UNION { IF ~w.ok THEN {w.m}
                     ELSE IF (flushMode = "Z_FINISH" /\ d.status # "Z_STREAM_END")
                             \/ (flushMode # "Z_FINISH" /\ Len(d.out) = m.bufferSize)
                     THEN flushZlibLoop(w.m, flushMode, fuel - 1)
                     ELSE {w.m}
                   : w \in writeBytes(m1, d.out) }

flushZlib(m, flushMode) == flushZlibLoop(m, flushMode, LoopFuel)

\* flush() that finishes the stream instead of a sync flush
Zlib_flush_finish(m) == flushZlib(m, "Z_FINISH")

\* flush()
Zlib_flush(m) == flushZlib(m, "Z_SYNC_FLUSH")

\* finalize(read): the outcomes m
Zlib_finalize(m, read) ==
    IF read
    THEN {[m EXCEPT !.state = "NotReadFirstByte", !.strm = NoStream,
                    !.heap = FreeStream(@, TRUE)]}
    ELSE { [f EXCEPT !.strm = NoStream, !.heap = FreeStream(@, FALSE)]
           : f \in IF m.state = "BytesWritten"
                   THEN flushZlib([m EXCEPT !.state = "NoBytesWritten"], "Z_FINISH")
                   ELSE {m} }

(***************************************************************************)
(* QtIOCompressorZstdPrivate                                               *)
(***************************************************************************)
\* errorMessage + ZSTD_getErrorName(zstdErrorCode)
setZstdError(m, msg, code) == setErrorString(m, <<msg, code>>)

\* ZSTD_compressStream2(zstdCStream, &out, &in, directive): the outcomes
compressCall(m, in, directive) ==
    {[c |-> ZSTD_compressStream2(m.strm, in, m.bufferSize, directive), m |-> m]}
    \cup (IF MayFail(m)
          THEN {[c |-> [status |-> "error", strm |-> m.strm, consumed |-> 0, out |-> <<>>],
                 m |-> Fault(m)]}
          ELSE {})

\* ZSTD_decompressStream(zstdDStream, &out, &zstdInBuffer): the outcomes
decompressCall(m, cap) ==
    {[c |-> ZSTD_decompressStream(m.strm, Input(m), cap), m |-> m]}
    \cup (IF MayFail(m)
          THEN {[c |-> [status |-> "error", strm |-> m.strm, consumed |-> 0, out |-> <<>>],
                 m |-> Fault(m)]}
          ELSE {})

\* initialize(read): the outcomes [m, r].  state is not assigned.
Zstd_initialize(m, read) ==
    IF ~withZstd
    THEN {[m |-> setErrorString(m, <<"this build doesn't ship zstd support">>), r |-> FALSE]}
    ELSE
        LET fresh == NewStream(IF read THEN "head" ELSE "init")
            size == Max(IF read THEN ZSTD_DStreamInSize ELSE ZSTD_CStreamOutSize,
                        m.bufferSize)
        IN  {[m |-> [m EXCEPT !.strm = fresh, !.bufferSize = size,
                              !.buffer = NewBuffer(size), !.nextIn = 0, !.availIn = 0,
                              !.heap = NewScratch(CreateStream(@, read))],
              r |-> TRUE]}
            \cup
            (IF MayFail(m)
             THEN {[m |-> setErrorString([Fault(m) EXCEPT !.heap = CreateFailed(@, read)],
                                         <<"Internal zstd error">>),
                    r |-> FALSE],
                   [m |-> setZstdError([Fault(m) EXCEPT !.strm = fresh,
                                                        !.heap = CreateStream(@, read)],
                                       "Internal zstd error: ", "memory_allocation"),
                    r |-> FALSE]}
             ELSE {})

\* while (pos < size) ungetChar(src[--size])
RECURSIVE zstdUnget(_)
zstdUnget(m) ==
    IF m.availIn = 0 THEN m
    ELSE zstdUnget(ungetChar([m EXCEPT !.availIn = @ - 1,
                                       !.eos.peeked = @ \cup {m.nextIn + m.availIn - 1}],
                             m.buffer[m.nextIn + m.availIn]))

\* readData(data, maxSize): the outcomes [m, r, data]
RECURSIVE zstdReadLoop(_, _, _, _)

\* The end of readData without the ZSTD_isError test: an error status is
\* one more status that is not 0.
zstdReadTail_noErrorTest(m, maxSize, out, fuel) ==
    UNION {
        LET f == x.c
            m2 == [x.m EXCEPT !.strm = f.strm, !.nextIn = @ + f.consumed,
                              !.availIn = @ - f.consumed]
            out2 == out \o f.out
        IN  IF f.status = "zero"
            THEN {[m |-> zstdUnget([m2 EXCEPT !.state = "EndOfStream"]),
                   r |-> Len(out2), data |-> out2]}
            ELSE IF Len(out2) < maxSize
            THEN zstdReadLoop(m2, maxSize, out2, fuel - 1)
            ELSE {[m |-> m2, r |-> Len(out2), data |-> out2]}
    : x \in decompressCall(m, maxSize - Len(out)) }

zstdReadTail(m, maxSize, out, fuel) ==
    \* from the call of ZSTD_decompressStream to the end of readData
    UNION {
        LET f == x.c
            m2 == [x.m EXCEPT !.strm = f.strm, !.nextIn = @ + f.consumed,
                              !.availIn = @ - f.consumed]
            out2 == out \o f.out
        IN  IF f.status = "zero"
            THEN {[m |-> zstdUnget([m2 EXCEPT !.state = "EndOfStream",
                                              !.eos = [hit |-> TRUE, left |-> Input(m2),
                                                       rest |-> m2.devIn,
                                                       pulled |-> m2.nextIn + m2.availIn,
                                                       peeked |-> {}]]),
                   r |-> Len(out2), data |-> out2]}
            ELSE IF f.status = "error"
            THEN {[m |-> setZstdError(m2, "Internal zstd error when decompressing: ",
                                      "decode"),
                   r |-> -1, data |-> <<>>]}
            ELSE IF Len(out2) < maxSize
            THEN zstdReadLoop(m2, maxSize, out2, fuel - 1)
            ELSE {[m |-> m2, r |-> Len(out2), data |-> out2]}
    : x \in decompressCall(m, maxSize - Len(out)) }

\* readData that does not ask whether the first bytes have arrived
zstdReadLoop_noEmptyTest(m, maxSize, out, fuel) ==
    IF fuel = 0 THEN {[m |-> [m EXCEPT !.hung = TRUE], r |-> -1, data |-> <<>>]}
    ELSE IF m.availIn = 0
    THEN UNION {
            IF d.r = -1
            THEN {[m |-> setErrorString([d.m EXCEPT !.state = "Error"],
                                        <<"Error reading data from underlying device: ",
                                          "device">>),
                   r |-> -1, data |-> <<>>]}
            ELSE zstdReadTail([d.m EXCEPT !.nextIn = 0, !.availIn = d.r,
                                          !.state = IF d.r > 0 THEN "InStream" ELSE @],
                              maxSize, out, fuel)
         : d \in deviceRead(m, m.bufferSize) }
    ELSE zstdReadTail(m, maxSize, out, fuel)

zstdReadLoop(m, maxSize, out, fuel) ==
    IF fuel = 0 THEN {[m |-> [m EXCEPT !.hung = TRUE], r |-> -1, data |-> <<>>]}
    ELSE IF m.availIn = 0
    THEN UNION {
            IF d.r = -1
            THEN {[m |-> setErrorString([d.m EXCEPT !.state = "Error"],
                                        <<"Error reading data from underlying device: ",
                                          "device">>),
                   r |-> -1, data |-> <<>>]}
            ELSE
                LET m1 == [d.m EXCEPT !.nextIn = 0, !.availIn = d.r] IN
                IF m.state # "InStream" /\ d.r = 0
                THEN {[m |-> m1, r |-> 0, data |-> <<>>]}
                ELSE zstdReadTail([m1 EXCEPT !.state = IF d.r > 0 THEN "InStream" ELSE @],
                                  maxSize, out, fuel)
         : d \in deviceRead(m, m.bufferSize) }
    ELSE zstdReadTail(m, maxSize, out, fuel)

Zstd_readData(m, maxSize) ==
    IF ~withZstd THEN {[m |-> m, r |-> -1, data |-> <<>>]}
    ELSE zstdReadLoop(m, maxSize, <<>>, LoopFuel)

\* writeData(data, maxSize): the outcomes [m, r, left]
RECURSIVE zstdWriteLoop(_, _, _)
zstdWriteLoop(m, in, maxSize) ==
    UNION {
        LET c == x.c IN
        IF c.status = "error"
        THEN {[m |-> setZstdError([x.m EXCEPT !.state = "Error"],
                                  "Internal zstd error when compressing: ", "compress"),
               r |-> -1, left |-> Len(in)]}
        ELSE
            LET m1 == [x.m EXCEPT !.strm = c.strm, !.buffer = Store(@, c.out)]
                in1 == Drop(in, c.consumed)
            IN  UNION { IF ~w.ok THEN {[m |-> w.m, r |-> -1, left |-> Len(in1)]}
                        ELSE IF in1 # <<>>
                        THEN zstdWriteLoop(w.m, in1, maxSize)
                        ELSE {[m |-> [w.m EXCEPT !.state = "BytesWritten"],
                               r |-> maxSize, left |-> 0]}
                      : w \in writeBytes(m1, c.out) }
    : x \in compressCall(m, in, "ZSTD_e_continue") }

Zstd_writeData(m, bytes) ==
    IF ~withZstd THEN {[m |-> m, r |-> -1, left |-> Len(bytes)]}
    ELSE zstdWriteLoop(m, bytes, Len(bytes))

\* flushZstd(flushMode): the outcomes m
RECURSIVE flushZstdLoop(_, _, _)
flushZstdLoop(m, flushMode, fuel) ==
    IF fuel = 0 THEN {[m EXCEPT !.hung = TRUE]}
    ELSE UNION {
        LET c == x.c IN
        IF c.status = "error"
        THEN {setZstdError([x.m EXCEPT !.state = "Error"],
                           "Internal zstd error when compressing: ", "compress")}
        ELSE UNION { IF ~w.ok THEN {w.m}
                     ELSE IF c.status # "zero"
                     THEN flushZstdLoop(w.m, flushMode, fuel - 1)
                     ELSE {w.m}
                   : w \in writeBytes([x.m EXCEPT !.strm = c.strm,
                                                  !.buffer = Store(@, c.out)],
                                      c.out) }
    : x \in compressCall(m, <<>>, flushMode) }

flushZstd(m, flushMode) ==
    IF ~withZstd THEN {m} ELSE flushZstdLoop(m, flushMode, LoopFuel)

\* flush()
Zstd_flush(m) == flushZstd(m, "ZSTD_e_flush")

\* finalize(read): the outcomes m
Zstd_finalize(m, read) ==
    IF ~withZstd THEN {m}
    ELSE IF read
    THEN {[m EXCEPT !.state = "NotReadFirstByte", !.strm = NoStream,
                    !.nextIn = 0, !.availIn = 0, !.heap = FreeStream(@, TRUE)]}
    ELSE { [f EXCEPT !.strm = NoStream, !.nextIn = 0, !.availIn = 0,
                     !.heap = FreeStream(@, FALSE)]
           : f \in IF m.state = "BytesWritten"
                   THEN flushZstd([m EXCEPT !.state = "NoBytesWritten"], "ZSTD_e_end")
                   ELSE {m} }

(***************************************************************************)
(* QtIOCompressor: the public device.  d->f() dispatches on the Private    *)
(* class the constructor created.                                          *)
(***************************************************************************)
initialize(m, read) ==
    IF codec = "zlib" THEN Zlib_initialize(m, read) ELSE Zstd_initialize(m, read)
finalize(m, read) ==
    IF codec = "zlib" THEN Zlib_finalize(m, read) ELSE Zstd_finalize(m, read)
Private_flush(m) ==
    IF codec = "zlib" THEN Zlib_flush(m) ELSE Zstd_flush(m)
Private_readData(m, maxSize) ==
    IF codec = "zlib" THEN Zlib_readData(m, maxSize) ELSE Zstd_readData(m, maxSize)
Private_writeData(m, bytes) ==
    IF codec = "zlib" THEN Zlib_writeData(m, bytes) ELSE Zstd_writeData(m, bytes)

OpenModes == {"NotOpen", "ReadOnly", "WriteOnly", "ReadWrite"}
HasReadOnly(mode) == mode \in {"ReadOnly", "ReadWrite"}
HasWriteOnly(mode) == mode \in {"WriteOnly", "ReadWrite"}

\* QIODevice::open(mode) and QIODevice::close() of the base class: both reset
\* the error string ("The error string is also reset", QIODevice::close())
QIODevice_open(m, mode) == [m EXCEPT !.openMode = mode, !.errorString = <<>>]
QIODevice_close(m) == [m EXCEPT !.openMode = "NotOpen", !.errorString = <<>>]

\* open(mode) that opens the underlying device without asking whether it is open
openDevice_reopens(m, mode) ==
    UNION { IF ~d.r
            THEN {[m |-> setErrorString(d.m, <<"Error opening underlying device: ", "device">>),
                   r |-> FALSE]}
            ELSE { IF i.r THEN [m |-> QIODevice_open(i.m, mode), r |-> TRUE]
                   ELSE [m |-> i.m, r |-> FALSE]
                 : i \in initialize(d.m, HasReadOnly(mode)) }
          : d \in deviceOpen([m EXCEPT !.manageDevice = TRUE], mode) }

\* open(mode) from the test of the underlying device on: the outcomes [m, r]
openDevice(m, mode) ==
    LET read == HasReadOnly(mode)
        write == HasWriteOnly(mode)
        init(mm) == { IF i.r THEN [m |-> QIODevice_open(i.m, mode), r |-> TRUE]
                      ELSE [m |-> i.m, r |-> FALSE]
                    : i \in initialize(mm, read) }
    IN  IF m.devMode # "NotOpen"
        THEN LET m1 == [m EXCEPT !.manageDevice = FALSE] IN
             IF read /\ ~HasReadOnly(m.devMode) THEN {[m |-> m1, r |-> FALSE]}
             ELSE IF write /\ ~HasWriteOnly(m.devMode) THEN {[m |-> m1, r |-> FALSE]}
             ELSE init(m1)
        ELSE UNION { IF ~d.r
                     THEN {[m |-> setErrorString(d.m, <<"Error opening underlying device: ",
                                                       "device">>),
                            r |-> FALSE]}
                     ELSE init(d.m)
                   : d \in deviceOpen([m EXCEPT !.manageDevice = TRUE], mode) }

\* open(mode) without the test of isOpen()
open_again(m, mode) ==
    IF HasReadOnly(mode) = HasWriteOnly(mode) THEN {[m |-> m, r |-> FALSE]}
    ELSE openDevice(m, mode)

\* open(mode) without the test of the mode
open_anyMode(m, mode) ==
    IF m.openMode # "NotOpen" THEN {[m |-> m, r |-> FALSE]}
    ELSE openDevice(m, mode)

\* open(mode): the outcomes [m, r]
open(m, mode) ==
    LET read == HasReadOnly(mode)
        write == HasWriteOnly(mode)
    IN  IF m.openMode # "NotOpen" THEN {[m |-> m, r |-> FALSE]}
        ELSE IF (read /\ write) \/ ~(read \/ write) THEN {[m |-> m, r |-> FALSE]}
        ELSE openDevice(m, mode)

\* close() without the test of isOpen()
close_unguarded(m) ==
    { QIODevice_close(IF f.manageDevice THEN deviceClose(f) ELSE f)
      : f \in finalize(m, HasReadOnly(m.openMode)) }

\* close() that closes the underlying device whoever opened it
close_closesDevice(m) ==
    IF m.openMode = "NotOpen" THEN {m}
    ELSE { QIODevice_close(deviceClose(f)) : f \in finalize(m, HasReadOnly(m.openMode)) }

\* close(): the outcomes m
close(m) ==
    IF m.openMode = "NotOpen" THEN {m}
    ELSE { QIODevice_close(IF f.manageDevice THEN deviceClose(f) ELSE f)
           : f \in finalize(m, HasReadOnly(m.openMode)) }

\* flush() without the test of the open mode
flush_unguarded(m) == Private_flush(m)

\* flush(): the outcomes m
flush(m) ==
    IF m.openMode = "NotOpen" \/ HasReadOnly(m.openMode) THEN {m}
    ELSE Private_flush(m)

\* device->bytesAvailable(): the bytes the Endpoint has still to deliver
deviceBytesAvailable(m) == Len(m.devIn)

\* QIODevice::bytesAvailable() of the base class: the bytes held in the base
\* class's own read buffer.  read() hands every request to readData, so the
\* base class holds none.
QIODevice_bytesAvailable(m) == 0

\* bytesAvailable()
bytesAvailable(m) ==
    IF ~HasReadOnly(m.openMode) THEN 0
    ELSE LET numBytes == (CASE m.state = "NotReadFirstByte" -> deviceBytesAvailable(m)
                            [] m.state = "InStream" -> 1
                            [] OTHER -> 0)
                         + QIODevice_bytesAvailable(m)
         IN  IF numBytes > 0 THEN 1 ELSE 0

\* readData(data, maxSize) without the test for EndOfStream
readData_noEndTest(m, maxSize) ==
    IF m.state = "Error" THEN {[m |-> m, r |-> -1, data |-> <<>>]}
    ELSE Private_readData(m, maxSize)

\* readData(data, maxSize): the outcomes [m, r, data]
readData(m, maxSize) ==
    IF m.state = "EndOfStream" THEN {[m |-> m, r |-> 0, data |-> <<>>]}
    ELSE IF m.state = "Error" THEN {[m |-> m, r |-> -1, data |-> <<>>]}
    ELSE Private_readData(m, maxSize)

\* writeData(data, maxSize) without the test of maxSize
writeData_noSizeTest(m, bytes) ==
    IF m.state = "Error" THEN {[m |-> m, r |-> -1, left |-> Len(bytes)]}
    ELSE Private_writeData(m, bytes)

\* writeData(data, maxSize): the outcomes [m, r, left]
writeData(m, bytes) ==
    IF Len(bytes) < 1 THEN {[m |-> m, r |-> 0, left |-> 0]}
    ELSE IF m.state = "Error" THEN {[m |-> m, r |-> -1, left |-> Len(bytes)]}
    ELSE Private_writeData(m, bytes)

(***************************************************************************)
(* The callers: one action per public operation, and the environment's     *)
(* actions on the Endpoint while the compressor is closed.                 *)
(***************************************************************************)
DataSeqs(n) == UNION {[1..k -> DataBytes] : k \in 0..n}

\* The calls of a Write session in short: "-" none yet, "w" writes only, "f" and
\* "wf" one flush() last (after no write, after writes), "fw" and "wfw" writes
\* after a single flush(), "ff" two flush() calls in a row at some point.
AfterWrite(t) ==
    IF t \in {"-", "w"} THEN "w"
    ELSE IF t \in {"f", "fw"} THEN "fw"
    ELSE IF t \in {"wf", "wfw"} THEN "wfw"
    ELSE "ff"
AfterFlush(t) ==
    IF t = "-" THEN "f"
    ELSE IF t \in {"w", "fw", "wfw"} THEN "wf"
    ELSE "ff"

\* The byte an outside writer puts in place of a byte or behind the content.
TamperBytes == {"E"}

\* The runs that are explored.  sessions: successful open() calls of the
\* compressor; faults: failures of the Endpoint (-1) and of the codec's
\* allocator; readStalls, writeStalls: Endpoint reads and writes that transfer
\* 0 bytes although bytes are there; tamper: the stored bytes may change
\* between two sessions; extern: the caller opens and closes the Endpoint itself.
Faultless == [sessions |-> 2, faults |-> 0, readStalls |-> 0, writeStalls |-> 0,
              tamper |-> FALSE, extern |-> FALSE, data |-> MaxData]
Faulty == [sessions |-> 1, faults |-> 1, readStalls |-> 0, writeStalls |-> 0,
           tamper |-> FALSE, extern |-> FALSE, data |-> MaxData]
Damaged == [sessions |-> 2, faults |-> 0, readStalls |-> 1, writeStalls |-> 0,
            tamper |-> TRUE, extern |-> FALSE, data |-> MaxData]
Shared == [sessions |-> 2, faults |-> 0, readStalls |-> 0, writeStalls |-> 0,
           tamper |-> FALSE, extern |-> TRUE, data |-> MaxData]
Bulk == [sessions |-> 1, faults |-> 0, readStalls |-> 0, writeStalls |-> 0,
         tamper |-> FALSE, extern |-> FALSE, data |-> MaxData + 1]
Recovering == [sessions |-> 2, faults |-> 1, readStalls |-> 0, writeStalls |-> 0,
               tamper |-> FALSE, extern |-> FALSE, data |-> MaxData]
Stalling == [sessions |-> 1, faults |-> 0, readStalls |-> 0, writeStalls |-> 1,
             tamper |-> FALSE, extern |-> FALSE, data |-> MaxData]
Long == [sessions |-> 1, faults |-> 0, readStalls |-> 0, writeStalls |-> 0,
         tamper |-> FALSE, extern |-> FALSE, data |-> UINT_MODULUS + 1]

\* The level of GzipFormatSpec{} and the levels a caller may ask for: the
\* least, the default, the greatest, one more.
DefaultLevel == 6
Levels == {0, DefaultLevel, 9, 10}

\* The state after the constructor, for a level among levels.
ConstructedWith(levels) ==
    /\ codec \in {"zlib", "zstd"}
    /\ withZstd \in BOOLEAN
    /\ compressionLevel \in levels
    /\ (codec = "zlib" => withZstd)
    /\ stalls = 0
    /\ faults = 0
    /\ sessions = 0
    /\ openMode = "NotOpen"
    /\ errorString = <<>>
    /\ state = IF codec = "zstd" /\ ~withZstd THEN "Error" ELSE "Closed"
    /\ manageDevice = FALSE
    /\ bufferSize \in MinBuf..MaxBuf
    /\ buffer = IF codec = "zlib" THEN NewBuffer(bufferSize) ELSE <<>>
    /\ strm = NoStream
    /\ nextIn = 0
    /\ availIn = 0
    /\ devMode = "NotOpen"
    /\ devContent = <<>>
    /\ devIn = <<>>
    /\ calls = <<>>
    /\ op = <<"new">>
    /\ ret = 0
    /\ data = <<>>
    /\ wrote = <<>>
    /\ got = <<>>
    /\ hung = FALSE
    /\ eos = NoEos
    /\ inputLeft = 0
    /\ heap = IF codec = "zlib" THEN NewScratch(NoHeap) ELSE NoHeap
    /\ sessOK = TRUE
    /\ trail = "-"
    /\ startIn = <<>>
    /\ streams = <<>>
    /\ tampered = "no"
    /\ devAtOpen = "NotOpen"
    /\ lastEnd = "-"

Constructed == ConstructedWith({DefaultLevel})

Init == Constructed /\ profile = Faultless
InitLevels == ConstructedWith(Levels) /\ profile = Faultless
InitFaulty == Constructed /\ profile = Faulty
InitDamaged == Constructed /\ profile = Damaged
InitShared == Constructed /\ profile = Shared
InitRecovering == Constructed /\ profile = Recovering
InitBulk == Constructed /\ profile = Bulk
InitStalling == Constructed /\ profile = Stalling
InitLong == Constructed /\ profile = Long

\* The compressor has not been destroyed.
Alive == op[1] # "delete"

\* compressor.open(mode)
DoOpen(mode) ==
    /\ Alive
    /\ sessions < profile.sessions
    /\ \E o \in open(Machine, mode) :
        LET truncated == devMode = "NotOpen" /\ o.m.devMode = "WriteOnly" IN
        /\ Install(o.m)
        /\ op' = <<"open", mode>>
        /\ ret' = IF o.r THEN 1 ELSE 0
        /\ sessions' = IF o.r THEN sessions + 1 ELSE sessions
        /\ data' = <<>>
        /\ wrote' = IF o.r THEN <<>> ELSE wrote
        /\ got' = IF o.r THEN <<>> ELSE got
        /\ sessOK' = IF o.r THEN TRUE ELSE sessOK
        /\ trail' = IF o.r THEN "-" ELSE trail
        /\ startIn' = IF ~o.r THEN startIn
                      ELSE IF mode = "ReadOnly" THEN o.m.devIn ELSE o.m.devContent
        /\ streams' = IF truncated THEN <<>> ELSE streams
        /\ tampered' = IF truncated THEN "no" ELSE tampered
        /\ devAtOpen' = IF o.r THEN devMode ELSE devAtOpen
    /\ UNCHANGED <<config, lastEnd>>

\* No Endpoint read or write of the operation that led to m returned -1.
NoCallFailed(m) ==
    \A i \in 1..Len(m.calls) : m.calls[i][1] \in {"read", "write"} => m.calls[i][3] # -1

\* ~QtIOCompressorZstdPrivate() frees both codec objects; ~QtIOCompressorPrivate()
\* deletes the scratch buffer that buffer points to.
Destruct(m) ==
    [m EXCEPT !.heap = DeleteScratch(IF codec = "zstd" /\ withZstd
                                     THEN FreeStream(FreeStream(@, TRUE), FALSE)
                                     ELSE @)]

\* compressor.close(), on its own or as the first step of ~QtIOCompressor()
CallClose(destroy) ==
    /\ \E c \in close(Machine) :
        /\ Install(IF destroy THEN Destruct(c) ELSE c)
        /\ streams' = IF openMode = "WriteOnly"
                      THEN Append(streams,
                                  [src |-> wrote, trail |-> trail,
                                   len |-> Len(c.devContent) - Len(startIn),
                                   ok |-> sessOK /\ c.state # "Error"
                                          /\ NoCallFailed(c) /\ ~c.hung])
                      ELSE streams
        /\ sessOK' = (sessOK /\ c.state # "Error" /\ NoCallFailed(c))
    /\ op' = <<IF destroy THEN "delete" ELSE "close", openMode>>
    /\ ret' = 0
    /\ data' = <<>>
    /\ wrote' = <<>>
    /\ got' = <<>>
    /\ startIn' = <<>>
    /\ trail' = "-"
    /\ lastEnd' = IF openMode # "NotOpen" THEN state ELSE lastEnd
    /\ UNCHANGED <<config, sessions, tampered, devAtOpen>>

\* compressor.close()
DoClose ==
    /\ Alive
    /\ CallClose(FALSE)

\* delete compressor
Destroy ==
    /\ Alive
    /\ CallClose(TRUE)

\* compressor.flush()
DoFlush ==
    /\ Alive
    /\ \E f \in flush(Machine) :
        /\ Install(f)
        /\ sessOK' = (sessOK /\ f.state # "Error" /\ f.errorString = errorString)
    /\ op' = <<"flush">>
    /\ ret' = 0
    /\ data' = <<>>
    /\ trail' = IF openMode = "WriteOnly" THEN AfterFlush(trail) ELSE trail
    /\ UNCHANGED <<config, sessions, wrote, got, startIn, streams, tampered,
                   devAtOpen, lastEnd>>

\* compressor.read(data, maxSize); QIODevice::read refuses a device not open for reading
DoRead(maxSize) ==
    /\ Alive
    /\ openMode = "ReadOnly"
    /\ \E o \in readData(Machine, maxSize) :
        /\ Install(o.m)
        /\ ret' = o.r
        /\ data' = o.data
        /\ got' = got \o o.data
        /\ sessOK' = (sessOK /\ o.r # -1)
    /\ op' = <<"read", maxSize>>
    /\ UNCHANGED <<config, sessions, wrote, trail, startIn, streams, tampered,
                   devAtOpen, lastEnd>>

\* compressor.write(data, maxSize); QIODevice::write refuses a device not open for writing
DoWrite(bytes) ==
    /\ Alive
    /\ openMode = "WriteOnly"
    /\ Len(wrote) + Len(bytes) <= profile.data
    /\ \E o \in writeData(Machine, bytes) :
        /\ Install([o.m EXCEPT !.inputLeft = o.left])
        /\ ret' = o.r
        /\ wrote' = IF o.r = -1 THEN wrote ELSE wrote \o bytes
        /\ sessOK' = (sessOK /\ o.r # -1)
    /\ op' = <<"write", bytes>>
    /\ data' = <<>>
    /\ trail' = IF Len(bytes) >= 1 THEN AfterWrite(trail) ELSE trail
    /\ UNCHANGED <<config, sessions, got, startIn, streams, tampered,
                   devAtOpen, lastEnd>>

EnvStep(what) ==
    /\ Alive
    /\ op' = <<"env", what>>
    /\ ret' = 0
    /\ data' = <<>>
    /\ calls' = <<>>
    /\ hung' = FALSE
    /\ eos' = NoEos
    /\ inputLeft' = 0
    /\ UNCHANGED <<config, stalls, faults, sessions, openMode, errorString, state,
                   manageDevice, bufferSize, buffer, strm, nextIn, availIn, heap, wrote, got,
                   sessOK, trail, startIn, devAtOpen, lastEnd>>

\* The stored bytes change outside the compressor: the last byte is lost, one
\* byte is replaced, or a byte is added behind the end.
EnvTamper ==
    /\ profile.tamper /\ sessions < profile.sessions
    /\ openMode = "NotOpen" /\ devMode = "NotOpen"
    /\ tampered = "no" /\ streams # <<>>
    /\ \/ /\ devContent # <<>>
          /\ devContent' = Take(devContent, Len(devContent) - 1)
          /\ tampered' = "damaged"
       \/ \E i \in 1..Len(devContent), b \in TamperBytes :
          /\ devContent[i] # b
          /\ devContent' = [devContent EXCEPT ![i] = b]
          /\ tampered' = "damaged"
       \/ \E b \in TamperBytes :
          /\ devContent' = Append(devContent, b)
          /\ tampered' = "appended"
    /\ UNCHANGED <<devMode, devIn, streams>>
    /\ EnvStep("tamper")

\* The caller opens the Endpoint itself while the compressor is closed.
EnvOpenDevice(mode) ==
    /\ profile.extern
    /\ openMode = "NotOpen" /\ devMode = "NotOpen"
    /\ devMode' = mode
    /\ devContent' = IF mode = "WriteOnly" THEN <<>> ELSE devContent
    /\ devIn' = IF mode = "WriteOnly" THEN <<>> ELSE devContent
    /\ streams' = IF mode = "WriteOnly" THEN <<>> ELSE streams
    /\ tampered' = IF mode = "WriteOnly" THEN "no" ELSE tampered
    /\ EnvStep("open")

\* The caller closes the Endpoint itself while the compressor is closed.
EnvCloseDevice ==
    /\ profile.extern
    /\ openMode = "NotOpen" /\ devMode # "NotOpen"
    /\ devMode' = "NotOpen"
    /\ devIn' = <<>>
    /\ UNCHANGED <<devContent, streams, tampered>>
    /\ EnvStep("close")

Next ==
    \/ \E mode \in OpenModes : DoOpen(mode)
    \/ DoClose
    \/ DoFlush
    \/ \E n \in 1..MaxRead : DoRead(n)
    \/ \E bytes \in DataSeqs(MaxData + 1) : DoWrite(bytes)

NextLifetime ==
    \/ Next
    \/ Destroy

NextDamaged ==
    \/ Next
    \/ EnvTamper

NextShared ==
    \/ Next
    \/ \E mode \in OpenModes \ {"NotOpen"} : EnvOpenDevice(mode)
    \/ EnvCloseDevice

\* The callers alone, over an Endpoint that never fails.
Spec == Init /\ [][Next]_vars

\* The Endpoint and the codec's allocator may fail.
SpecFaulty == InitFaulty /\ [][Next]_vars

\* The stored bytes may be damaged between sessions and the Endpoint may stall.
SpecDamaged == InitDamaged /\ [][NextDamaged]_vars

\* The caller may hand over an Endpoint that it has opened itself.
SpecShared == InitShared /\ [][NextShared]_vars

\* A session may fail and be followed by another.
SpecRecovering == InitRecovering /\ [][Next]_vars

\* The caller may destroy the compressor at any time.
SpecLifetime == Init /\ [][NextLifetime]_vars

\* One session in which the caller may write one byte more.
SpecBulk == InitBulk /\ [][Next]_vars

\* One session in which the first call after open() may be a write() of a
\* buffer whose length is about the number of values of uInt: one less, as
\* many, one more.
LongLens == {UINT_MODULUS - 1, UINT_MODULUS, UINT_MODULUS + 1}
LongData == {[i \in 1..k |-> "a"] : k \in LongLens}
DoWriteLong(bytes) ==
    /\ trail = "-"
    /\ DoWrite(bytes)
NextLong ==
    \/ \E mode \in OpenModes : DoOpen(mode)
    \/ DoClose
    \/ DoFlush
    \/ \E n \in 1..MaxRead : DoRead(n)
    \/ \E bytes \in LongData : DoWriteLong(bytes)
SpecLong == InitLong /\ [][NextLong]_vars

\* One session over an Endpoint whose write may for once accept no byte.
SpecStalling == InitStalling /\ [][Next]_vars

\* The caller chooses the compression level.
SpecLevels == InitLevels /\ [][Next]_vars

(***************************************************************************)
(* Properties.                                                             *)
(***************************************************************************)
IsRead == op[1] = "read"
IsWrite == op[1] = "write"
IsFlush == op[1] = "flush"
IsPrefix(s, t) == Len(s) <= Len(t) /\ s = Take(t, Len(s))

\* A Read session over the untouched output of one Write session that ended
\* without a failure, read from its first byte, the Endpoint never failing
\* and never stalling.
CleanSource ==
    /\ openMode = "ReadOnly"
    /\ Len(streams) = 1 /\ streams[1].ok /\ streams[1].len = Len(devContent)
    /\ tampered = "no"
    /\ startIn = devContent
    /\ faults = 0 /\ stalls = 0

\* The bytes the Write session accepted.
Source == streams[1].src

\* C1  Round trip: the bytes returned by the read() calls of a Read session
\* over the output of a Write session are, in order, the bytes the write()
\* calls accepted; no read() fails, and read() returns 0 only when all of
\* them have been returned.
RoundTrip ==
    (IsRead /\ CleanSource) =>
        /\ ret >= 0
        /\ IsPrefix(got, Source)
        /\ (ret = 0 => got = Source)

\* A Read session has returned 0 after it returned as many bytes as a Write
\* session may take, not all the same.
RoundTripWitness ==
    /\ IsRead /\ CleanSource /\ ret = 0
    /\ Len(got) = MaxData /\ got[1] # got[Len(got)]

\* The bytes handed to ungetChar by the last operation, in call order.
IsUnget(e) == e[1] = "ungetChar"
Ungot == LET u == SelectSeq(calls, IsUnget) IN [i \in 1..Len(u) |-> u[i][2]]
Reverse(s) == [i \in 1..Len(s) |-> s[Len(s) + 1 - i]]

\* C2  End-of-stream push-back: a read() that reaches the end of the stream
\* hands exactly the bytes it pulled and did not consume back to the Endpoint
\* (none when there are none), so that the Endpoint goes on with those bytes,
\* in their order, and then with what it had not yet delivered.
PushBack ==
    (IsRead /\ eos.hit) =>
        /\ Ungot = Reverse(eos.left)
        /\ devIn = eos.left \o eos.rest

\* C3  Error is absorbing within a session: from state Error, a read(), a
\* write() of at least one byte or a flush() of the open compressor leaves the
\* state Error, and the read() or write() returns -1.
ErrorAbsorbing ==
    [][ ( /\ state = "Error" /\ openMode # "NotOpen"
          /\ \/ op'[1] \in {"read", "flush"}
             \/ (op'[1] = "write" /\ Len(op'[2]) >= 1) )
        => ( /\ state' = "Error"
             /\ (op'[1] \in {"read", "write"} => ret' = -1) ) ]_vars

\* The bytes of the stream the last Write session put on the Endpoint.
LastStream ==
    LET st == streams[Len(streams)] IN
    SubSeq(devContent, Len(devContent) - st.len + 1, Len(devContent))

\* A stream that ends with the codec's end of stream: the end marker, and for
\* zlib the checksum behind it.
Finished(bytes) ==
    IF codec = "zlib"
    THEN Len(bytes) >= 2 /\ bytes[Len(bytes) - 1] = "E"
    ELSE Len(bytes) >= 1 /\ bytes[Len(bytes)] = "E"

\* C4  Write finalization: when close() ends a Write session in which bytes
\* were written, over an Endpoint that does not fail, the Endpoint holds a
\* stream that is finished, and every Endpoint write of close() comes before
\* the Endpoint is closed.
WriteFinalization ==
    (op[1] = "close" /\ op[2] = "WriteOnly" /\ faults = 0
     /\ streams[Len(streams)].src # <<>>) =>
        /\ Finished(LastStream)
        /\ \A i, j \in 1..Len(calls) :
              (calls[i][1] = "write" /\ calls[j][1] = "close") => i < j

\* The last operation got -1 from an Endpoint read or an Endpoint write.
EndpointFailed ==
    \E i \in 1..Len(calls) : calls[i][1] \in {"read", "write"} /\ calls[i][3] = -1

\* C5  Every I/O failure of the Endpoint is fatal: after an operation in which
\* an Endpoint read or write returned -1 the state is Error, and the
\* operation, when it is a read() or a write(), returned -1.
IoFailureFatal ==
    EndpointFailed =>
        /\ state = "Error"
        /\ ((IsRead \/ IsWrite) => ret = -1)

\* C6  A fatal decode error: once the decompressor has found its input
\* corrupt, the state is Error, an error string is recorded and the read()
\* returned -1.
FatalDecodeError ==
    (openMode = "ReadOnly" /\ strm.mode = "bad") =>
        /\ state = "Error"
        /\ errorString # <<>>
        /\ (IsRead => ret = -1)

\* The last Endpoint call of the last operation was a read that delivered 0 bytes.
EndpointDry ==
    /\ calls # <<>>
    /\ calls[Len(calls)][1] = "read"
    /\ calls[Len(calls)][3] = 0

\* C7  Benign exhaustion: a read() that ends with the Endpoint delivering 0
\* bytes while the decompressor is between the header and the end of the
\* stream returns 0 and leaves the state InStream.
BenignExhaustion ==
    (IsRead /\ EndpointDry /\ strm.mode \in {"body", "check"}) =>
        /\ ret = 0
        /\ state = "InStream"

\* C8  Every read() terminates: no loop of a read() runs on without end,
\* whatever the Endpoint delivers, 0 bytes in state InStream included.
ReadTerminates == IsRead => ~hung

\* A read() of the zstd backend has returned after the Endpoint delivered 0
\* bytes in the middle of a stream.
ReadTerminatesWitness ==
    /\ IsRead /\ codec = "zstd" /\ state = "InStream" /\ EndpointDry
    /\ strm.mode = "body" /\ ~hung

\* C9  Flush-then-continue: a flush() that follows the writes of a Write
\* session (or opens it) does not end the stream and leaves the session
\* without an error; the write() after it is accepted in full; and the stream
\* of a session that wrote, flushed once and wrote again decompresses to all
\* the bytes written, in order.
FlushThenContinue ==
    /\ (openMode = "WriteOnly" /\ IsFlush /\ trail \in {"f", "wf"} /\ faults = 0) =>
          /\ state # "Error"
          /\ errorString = <<>>
          /\ strm.mode \in {"init", "busy"}
    /\ (openMode = "WriteOnly" /\ IsWrite /\ trail \in {"fw", "wfw"} /\ faults = 0) =>
          (Len(op[2]) >= 1 => ret = Len(op[2]))
    /\ (IsRead /\ CleanSource /\ streams[1].trail \in {"fw", "wfw"} /\ ret = 0) =>
          got = Source

\* A Read session has returned, and then returned 0, the two different bytes
\* that a Write session wrote before and after its one flush().
FlushThenContinueWitness ==
    /\ IsRead /\ CleanSource /\ streams[1].trail = "wfw" /\ ret = 0
    /\ Len(got) = MaxData /\ got[1] # got[Len(got)]

\* C10  Chunked reads equal a single read: over a complete stream, the bytes
\* of any sequence of read(maxSize) calls up to the one that returns 0, and
\* the bytes of one first read() whose maxSize is at least the decompressed
\* size, are both the decompressed stream.
ChunkedEqualsSingle ==
    (IsRead /\ CleanSource) =>
        /\ (ret = 0 => got = Source)
        /\ ((got = data /\ op[2] >= Len(Source)) => data = Source)

\* The second of two read(1) calls has returned the last byte of a stream of
\* as many bytes as a Write session may take.
ChunkedEqualsSingleWitness ==
    /\ IsRead /\ CleanSource /\ op[2] = 1 /\ ret = 1
    /\ Len(Source) = MaxData /\ got = Source /\ MaxData >= 2

\* The step leaves the compressor, its backend and the Endpoint as they were
\* and makes no call on the Endpoint.
Untouched ==
    /\ openMode' = openMode /\ errorString' = errorString /\ state' = state
    /\ manageDevice' = manageDevice /\ bufferSize' = bufferSize /\ buffer' = buffer
    /\ strm' = strm /\ nextIn' = nextIn /\ availIn' = availIn
    /\ devMode' = devMode /\ devContent' = devContent /\ devIn' = devIn
    /\ calls' = <<>>

\* C11  Idempotent close: close() of a compressor that is not open (never
\* opened, or closed already) finalizes nothing, makes no call on the Endpoint
\* and changes nothing.
IdempotentClose ==
    [][ (openMode = "NotOpen" /\ op'[1] = "close") => Untouched ]_vars

\* close() has been called on a compressor that a close() had closed before,
\* its Write session having put bytes on the Endpoint.
IdempotentCloseWitness ==
    /\ op[1] = "close" /\ op[2] = "NotOpen"
    /\ lastEnd # "-" /\ devContent # <<>>

\* C12  Endpoint ownership: close() of an open compressor closes the Endpoint
\* when the open() of the session found it closed and opened it; an Endpoint
\* that was open when open() was called is not closed by close() and is still
\* open in the mode it had.
EndpointOwnership ==
    (op[1] = "close" /\ op[2] # "NotOpen") =>
        IF devAtOpen = "NotOpen"
        THEN /\ devMode = "NotOpen"
             /\ \E i \in 1..Len(calls) : calls[i][1] = "close"
        ELSE /\ devMode = devAtOpen
             /\ \A i \in 1..Len(calls) : calls[i][1] # "close"

\* close() has ended a Write session that put bytes on an Endpoint which the
\* caller had opened for reading and writing, and the Endpoint is still open.
EndpointOwnershipWitness ==
    /\ op[1] = "close" /\ op[2] = "WriteOnly"
    /\ devAtOpen = "ReadWrite" /\ devMode = "ReadWrite"
    /\ devContent # <<>>

\* C13  A second open(): open() of a compressor that is open returns false and
\* leaves the compressor, its backend and the Endpoint as they were; and the
\* open mode of an open compressor changes with no operation but close().
SecondOpenRejected ==
    [][ /\ (openMode # "NotOpen" /\ op'[1] = "open") => (ret' = 0 /\ Untouched)
        /\ (openMode # "NotOpen" /\ op'[1] # "close") => openMode' = openMode ]_vars

\* open(ReadOnly) has been refused in a Write session that has written bytes.
SecondOpenRejectedWitness ==
    /\ op[1] = "open" /\ op[2] = "ReadOnly" /\ ret = 0
    /\ openMode = "WriteOnly" /\ wrote # <<>>

\* C14  Direction-specific states: while the compressor is open for reading
\* the state is NotReadFirstByte, InStream, EndOfStream or Error, and while
\* it is open for writing the state is NoBytesWritten, BytesWritten or Error.
DirectionStates ==
    /\ openMode = "ReadOnly" =>
          state \in {"NotReadFirstByte", "InStream", "EndOfStream", "Error"}
    /\ openMode = "WriteOnly" =>
          state \in {"NoBytesWritten", "BytesWritten", "Error"}

\* C15  Closed after close(): when close() has ended a session the state is
\* Closed, and it is Closed for as long as the compressor then stays closed.
ClosedAfterClose ==
    /\ (op[1] = "close" /\ op[2] # "NotOpen") => state = "Closed"
    /\ (openMode = "NotOpen" /\ lastEnd # "-") => state = "Closed"

\* C16  open() with both ReadOnly and WriteOnly requested, or with neither,
\* returns false and leaves everything as it was: the compressor stays
\* closed, the Endpoint is not opened and the backend is not initialized.
AmbiguousModeRejected ==
    [][ (op'[1] = "open" /\ op'[2] \in {"ReadWrite", "NotOpen"})
        => (ret' = 0 /\ Untouched) ]_vars

\* open(ReadWrite) has been refused on a closed compressor whose Endpoint is
\* closed.
AmbiguousModeRejectedWitness ==
    /\ op[1] = "open" /\ op[2] = "ReadWrite" /\ ret = 0
    /\ openMode = "NotOpen" /\ devMode = "NotOpen" /\ strm = NoStream

\* C17  A failed open(): whenever open() has returned false the compressor
\* is closed and an error string is recorded.
OpenFailureRecorded ==
    (op[1] = "open" /\ ret = 0) =>
        /\ openMode = "NotOpen"
        /\ errorString # <<>>

\* C18  Recovery by reopening: when a session has ended in state Error, the
\* session that the next successful open() starts is in the initial state of
\* its direction, NotReadFirstByte for reading and NoBytesWritten for writing.
RecoveryByReopening ==
    (op[1] = "open" /\ ret = 1 /\ lastEnd = "Error") =>
        state = IF openMode = "ReadOnly" THEN "NotReadFirstByte" ELSE "NoBytesWritten"

\* C19  Reads at the end of the stream: in state EndOfStream a read() returns
\* 0 and no byte, makes no call on the Endpoint (no read, no push-back) and
\* leaves the state, the backend and the Endpoint as they were.
EndOfStreamReads ==
    [][ (state = "EndOfStream" /\ op'[1] = "read")
        => (ret' = 0 /\ data' = <<>> /\ Untouched) ]_vars

\* A read() has returned 0 in state EndOfStream, which an earlier read() had
\* reached, while the Endpoint still has a byte to deliver.
EndOfStreamReadsWitness ==
    /\ IsRead /\ ret = 0 /\ state = "EndOfStream" /\ ~eos.hit
    /\ got # <<>> /\ devIn # <<>>

\* C20  Empty writes: a write() of less than one byte returns 0, makes no
\* call on the Endpoint or the codec and leaves the state as it was, in
\* every state of a Write session, Error included.
EmptyWrite ==
    [][ (openMode = "WriteOnly" /\ op'[1] = "write" /\ Len(op'[2]) < 1)
        => (ret' = 0 /\ Untouched) ]_vars

\* A write() of no bytes has returned 0 in state Error.
EmptyWriteWitness ==
    /\ IsWrite /\ op[2] = <<>> /\ ret = 0
    /\ openMode = "WriteOnly" /\ state = "Error"

\* C21  flush() of a compressor that is not open, or that is open for
\* reading, has no effect: no call on the backend or the Endpoint, and the
\* state is as it was.
FlushNoOp ==
    [][ (op'[1] = "flush" /\ openMode # "WriteOnly") => Untouched ]_vars

\* flush() has been called in the middle of a stream that is being read.
FlushNoOpWitness ==
    /\ IsFlush /\ openMode = "ReadOnly" /\ state = "InStream" /\ got # <<>>

\* C22  bytesAvailable() in a Read session is 0 or 1, and it is 1 in every
\* state but EndOfStream and Error in which the Endpoint has bytes to deliver
\* or the stream has been entered.  (bytesAvailable() is const: it is
\* evaluated in every state.)
BytesAvailableTells ==
    openMode = "ReadOnly" =>
        /\ bytesAvailable(Machine) \in {0, 1}
        /\ (state \notin {"EndOfStream", "Error"} /\ (devIn # <<>> \/ state = "InStream"))
              => bytesAvailable(Machine) = 1

LevelValidated ==
    (codec = "zlib" /\ op[1] = "open" /\ op[2] \in {"ReadOnly", "WriteOnly"}) =>
        compressionLevel \in 0..9

\* The Endpoint's open mode includes the direction asked for.
Compatible(mode, deviceMode) ==
    IF mode = "ReadOnly" THEN HasReadOnly(deviceMode) ELSE HasWriteOnly(deviceMode)

\* C25  An Endpoint that is open already: open() for reading or for writing
\* of a closed compressor whose Endpoint is open makes no open or close call
\* on the Endpoint and leaves its mode and its bytes as they are; when the
\* Endpoint's mode does not include the direction, open() returns false and
\* the compressor stays closed.
OpenEndpointValidated ==
    [][ (openMode = "NotOpen" /\ devMode # "NotOpen"
         /\ op'[1] = "open" /\ op'[2] \in {"ReadOnly", "WriteOnly"})
        => /\ calls' = <<>>
           /\ devMode' = devMode /\ devContent' = devContent /\ devIn' = devIn
           /\ ~Compatible(op'[2], devMode) => (ret' = 0 /\ openMode' = "NotOpen") ]_vars

\* open(ReadOnly) has been refused over an Endpoint that the caller has opened
\* for writing.
OpenEndpointValidatedWitness ==
    /\ op[1] = "open" /\ op[2] = "ReadOnly" /\ ret = 0
    /\ withZstd /\ openMode = "NotOpen" /\ devMode = "WriteOnly" /\ calls = <<>>

\* The last operation was a close() of an open compressor whose finalize failed:
\* an Endpoint write returned -1 while draining, or the codec reported an error.
FinalizeFailed ==
    /\ op[1] = "close" /\ op[2] # "NotOpen"
    /\ (EndpointFailed \/ (state = "Error" /\ lastEnd # "Error"))

\* C26  A close() whose finalize fails: the error is surfaced, that is an
\* error string is recorded after the close(); the Endpoint, when the
\* compressor opened it, is closed all the same; and the compressor is not
\* open.
CloseFailureSurfaced ==
    FinalizeFailed =>
        /\ errorString # <<>>
        /\ (manageDevice => devMode = "NotOpen")
        /\ openMode = "NotOpen"

\* The Endpoint writes of the last operation, as logged: <<"write", the size
\* offered, the size accepted or -1, the bytes offered>>.
IsEndpointWrite(c) == c[1] = "write"

\* C27  Short-write retry: an Endpoint write that accepts fewer bytes than it
\* was offered is followed at once by an Endpoint write that offers the bytes
\* not accepted and no others, so that the bytes the Endpoint accepts are the
\* scratch bytes, in order, each once; the operation does not end on a short
\* write; and a write() in which an Endpoint write returned -1 returns -1.
ShortWriteRetry ==
    /\ \A i \in 1..Len(calls) :
          (IsEndpointWrite(calls[i]) /\ calls[i][3] # -1 /\ calls[i][3] < calls[i][2]) =>
              /\ i < Len(calls)
              /\ IsEndpointWrite(calls[i + 1])
              /\ calls[i + 1][4] = Drop(calls[i][4], calls[i][3])
    /\ (IsWrite /\ EndpointFailed) => ret = -1

\* A write() that went through after the Endpoint took the two scratch bytes
\* one at a time, and a write() that an Endpoint failure ended.
ShortWriteRetryWitness ==
    /\ IsWrite /\ ret = Len(op[2]) /\ Len(calls) >= 2
    /\ \E i \in 1..(Len(calls) - 1) :
          /\ IsEndpointWrite(calls[i]) /\ calls[i][2] = 2 /\ calls[i][3] = 1
          /\ IsEndpointWrite(calls[i + 1]) /\ calls[i + 1][3] = 1

\* C28  A write() of len >= 1 bytes that returns len: the codec has consumed
\* all len bytes (the loop does not end with input left), and the bytes the
\* codec put into the scratch buffer during the call are all on the Endpoint,
\* the last Endpoint call being a write that was accepted in full.
WriteConsumesAll ==
    (IsWrite /\ Len(op[2]) >= 1 /\ ret = Len(op[2])) =>
        /\ inputLeft = 0
        /\ calls # <<>>
        /\ \A i \in 1..Len(calls) : IsEndpointWrite(calls[i]) /\ calls[i][3] # -1
        /\ calls[Len(calls)][3] = calls[Len(calls)][2]

\* A write() of more bytes than deflate takes in at a time has returned its
\* length after the first pass of the loop had filled the scratch buffer.
WriteConsumesAllWitness ==
    /\ IsWrite /\ codec = "zlib" /\ Len(op[2]) > WindowLen /\ ret = Len(op[2])
    /\ inputLeft = 0 /\ Len(calls) >= 2
    /\ \E i \in 1..Len(calls) :
          /\ (\A j \in 1..i : IsEndpointWrite(calls[j]))
          /\ calls[1][2] = bufferSize
          /\ calls[i][3] = calls[i][2]
          /\ i < Len(calls)

\* C29  write() fails only for a cause: a write() of len >= 1 bytes, called
\* in a Write session whose state is not Error, in which no Endpoint write
\* returns -1 and the codec does not fail, returns len and leaves the state
\* BytesWritten; this includes
\* the write() whose first pass fills the scratch buffer exactly, so that the
\* codec is called once more with nothing to take in and nothing to give out.
WriteFailsOnlyForCause ==
    [][ ( /\ op'[1] = "write" /\ Len(op'[2]) >= 1
          /\ state # "Error"
          /\ \A i \in 1..Len(calls') : calls'[i][3] # -1
          /\ faults' = faults )
        => (ret' = Len(op'[2]) /\ state' = "BytesWritten") ]_vars

\* A write() has returned its length after the codec, called again behind a
\* scratch buffer filled exactly, gave no byte: the Endpoint was offered the
\* full buffer and then nothing.
WriteFailsOnlyForCauseWitness ==
    /\ IsWrite /\ codec = "zlib" /\ ret = Len(op[2]) /\ state = "BytesWritten"
    /\ Len(calls) >= 2
    /\ LET n == Len(calls) IN
          /\ IsEndpointWrite(calls[n - 1]) /\ calls[n - 1][3] = bufferSize
          /\ IsEndpointWrite(calls[n]) /\ calls[n][2] = 0

\* C30  An empty source: when the first thing a read() does is an Endpoint
\* read that delivers 0 bytes, the state not being InStream, the read()
\* returns 0 with no data, makes no other call on the Endpoint (no byte is
\* pushed back) and leaves the state and the error string as they were.
EmptySource ==
    [][ ( /\ op'[1] = "read" /\ state # "InStream"
          /\ calls' # <<>> /\ calls'[1][1] = "read" /\ calls'[1][3] = 0 )
        => /\ ret' = 0 /\ data' = <<>>
           /\ Len(calls') = 1
           /\ state' = state /\ state' \notin {"Error", "EndOfStream"}
           /\ errorString' = errorString /\ errorString' = <<>> ]_vars

\* The first read() of a Read session on an Endpoint that holds nothing.
EmptySourceWitness ==
    /\ IsRead /\ ret = 0 /\ got = <<>> /\ devContent = <<>>
    /\ calls = << <<"read", bufferSize, 0>> >>
    /\ state # "InStream" /\ errorString = <<>>

\* C31  The scratch buffer's lifetime: at most one scratch buffer is
\* allocated at any time, whatever open() and close() calls were made, and
\* none is allocated once the compressor has been destroyed.
ScratchLifetime ==
    /\ heap.buffers <= 1
    /\ (op[1] = "delete" => heap.buffers = 0)

\* The last operation was an open() in which initialize failed: the mode was
\* accepted, the Endpoint was opened, and open() returned false.
InitializeFailed ==
    /\ op[1] = "open" /\ ret = 0 /\ calls # <<>>
    /\ (errorString = <<>> \/ errorString[1] # "Error opening underlying device: ")

\* The codec objects that a pointer of the compressor refers to.
Referenced(h) == Cardinality({s \in {"c", "d"} : h.stream[s]})

\* C32  A failed initialize: open() has returned false with an error string
\* and no codec object is allocated; and no codec object is ever allocated
\* without a pointer to it, that is no open() has overwritten the pointer to
\* an object that was still allocated.
InitializeFailureClean ==
    /\ InitializeFailed => (errorString # <<>> /\ heap.objects = 0)
    /\ heap.objects = Referenced(heap)

\* A Read session over the untouched output of one Write session that ended
\* without a failure, read from its first byte; the Endpoint never fails but
\* may deliver 0 bytes for a while.
UntouchedSource ==
    /\ openMode = "ReadOnly"
    /\ Len(streams) = 1 /\ streams[1].ok /\ streams[1].len = Len(devContent)
    /\ tampered = "no"
    /\ startIn = devContent
    /\ faults = 0

\* C33  No decompressed byte is lost across read() calls: however the
\* Endpoint splits its data over its reads, 0 bytes for a while in the middle
\* of the stream included, a read() that does not fail returns as many bytes
\* as it reports, the bytes returned so far are the first bytes of the
\* decompressed stream, and they are all of it once the end of the stream is
\* reached.
NoByteLost ==
    (IsRead /\ UntouchedSource /\ ret >= 0) =>
        /\ ret = Len(data)
        /\ IsPrefix(got, Source)
        /\ (state = "EndOfStream" => got = Source)

\* C34  An Endpoint that the compressor opened is not left open: when no
\* caller opens the Endpoint itself, the Endpoint is closed whenever the
\* compressor is not open, after an open() whose initialize failed included.
EndpointNotLeftOpen ==
    (openMode = "NotOpen" /\ ~profile.extern) => devMode = "NotOpen"

\* C35  A Write session without a write() of at least one byte and without a
\* flush() sends nothing to the Endpoint: its close() makes no Endpoint write
\* and leaves the Endpoint's bytes as they are, also when an earlier Write
\* session has written bytes.
SilentSessionWritesNothing ==
    [][ (op'[1] = "close" /\ openMode = "WriteOnly" /\ trail = "-")
        => /\ \A i \in 1..Len(calls') : ~IsEndpointWrite(calls'[i])
           /\ devContent' = devContent ]_vars

\* The order of the states of a Read session.
ReadStates == {"NotReadFirstByte", "InStream", "EndOfStream", "Error"}
ReadRank(s) == CASE s = "NotReadFirstByte" -> 0
                 [] s = "InStream" -> 1
                 [] s = "EndOfStream" -> 2
                 [] s = "Error" -> 3

\* C36  The states of a Read session in order: a read() finds and leaves the
\* state among NotReadFirstByte, InStream, EndOfStream and Error and never
\* moves it backwards; it enters InStream only when the Endpoint delivered at
\* least one byte to it, and EndOfStream only when the codec reported the end
\* of the stream to it.
ReadProgression ==
    [][ op'[1] = "read" =>
          /\ state \in ReadStates /\ state' \in ReadStates
          /\ ReadRank(state) <= ReadRank(state')
          /\ (state # "InStream" /\ state' = "InStream") =>
                \E i \in 1..Len(calls') : calls'[i][1] = "read" /\ calls'[i][3] >= 1
          /\ (state # "EndOfStream" /\ state' = "EndOfStream") => eos'.hit ]_vars

\* C37  The loop that sends the scratch bytes: no Endpoint write is made with
\* no byte left to send; an Endpoint write that accepts none of the bytes it
\* was offered is followed at once by a write of the same bytes and is not an
\* error, so that an operation in which no Endpoint write returned -1 records
\* no write error; the loop ends (on an Endpoint that accepts a byte in the
\* end) with all bytes accepted.
ScratchLoop ==
    /\ \A i \in 1..Len(calls) : IsEndpointWrite(calls[i]) => calls[i][2] >= 1
    /\ \A i \in 1..Len(calls) :
          (IsEndpointWrite(calls[i]) /\ calls[i][2] >= 1 /\ calls[i][3] = 0) =>
              /\ i < Len(calls)
              /\ IsEndpointWrite(calls[i + 1])
              /\ calls[i + 1][4] = calls[i][4]
    /\ (op[1] \in {"write", "flush", "close"} /\ ~EndpointFailed) =>
          /\ errorString = <<>> \/ errorString[1] # "Error writing to underlying device: "
          /\ \A i \in 1..Len(calls) :
                (IsEndpointWrite(calls[i])
                 /\ (i = Len(calls) \/ ~IsEndpointWrite(calls[i + 1]))) =>
                    calls[i][3] = calls[i][2]

\* The input bytes the compressor has taken in so far in a Write session:
\* those it has put out as literals, to the Endpoint or to its pending
\* output, and those it holds back.
Literals(s) == Cardinality({i \in 1..Len(s) : s[i] \in {"A", "B"}})
Compressed == Literals(devContent) + Literals(strm.pending) + Len(strm.hold)

\* C38  Deflate write length: a write(buf, len) of the zlib backend that
\* returns len has fed exactly len input bytes to the compressor, also when
\* len is not below the number of values of the codec's unsigned length field.
DeflateFeedsAll ==
    [][ (op'[1] = "write" /\ codec = "zlib" /\ ret' = Len(op'[2])) =>
            Compressed' = Compressed + Len(op'[2]) ]_vars

\* C39  The push-back at the end of the stream reads the scratch buffer only
\* at offsets below the number of bytes the last Endpoint read had obtained,
\* which are offsets below the capacity of the scratch buffer.
PushBackInRange ==
    (IsRead /\ eos.hit) =>
        \A k \in eos.peeked : k < eos.pulled /\ k < bufferSize

====
